---- MODULE Spec2Model ----
(***************************************************************************)
(* CainTask: a task-dependency graph editor (React + reactflow).           *)
(*                                                                         *)
(* The model has two parts.                                                *)
(*  - The pure graph functions of utils/graphUtils.ts (detectAllCycles,    *)
(*    areAllParentsCompleted, hasIncompleteParent, updateStyles) as        *)
(*    operators, computed the way the code computes them.                  *)
(*  - The FlowContent component as a state machine.  Its state is the      *)
(*    component's React state plus localStorage; one action is one event   *)
(*    handler, taken from the render that created the handler to the       *)
(*    render that follows it.  A handler reads the values its closure      *)
(*    captured (the state of the render before the event) and queues       *)
(*    state updates; the action's primed variables are the queued updates  *)
(*    applied in order.                                                    *)
(*                                                                         *)
(* Task ids are the decimal strings of taskIdCounter values and are        *)
(* modelled by the numbers themselves.  Arrow ids are strings.  Task       *)
(* labels and positions are drawn from small sets of naturals: label 0 is  *)
(* the label a task is created with, position 0 the place it is created   *)
(* at.                                                                     *)
(*                                                                         *)
(* updateStyles returns tasks and arrows with the derived fields style     *)
(* and markerEnd.  Every handler overwrites these fields and none reads    *)
(* them, so the state variables hold the stored arrays without them        *)
(* (storedTasks, storedArrows).  Project titles, lastSavedAt and the       *)
(* viewport are left out for the same reason.                              *)
(***************************************************************************)
EXTENDS Integers, Sequences, FiniteSets, TLC

\* ------------------------------------------------------------------ bounds

\* A session is modelled up to its first MaxWrites writes of the
\* localStorage item 'projects' (every saveToLocalStorage call and every
\* project creation writes it once): this bounds the edits of a behaviour,
\* and with them the sizes of the snapshots, of the history, of the
\* project list and of taskIdCounter.
MaxWrites == 3
\* Inputs of the cycle-detection specification: arrow sequences of at most
\* CyLen arrows over the task ids 1..CyNodes.
CyNodes == 3
CyLen == 3
\* The arrow specification starts from a saved project of two tasks and at
\* most SavedArrows arrows.
SavedArrows == 2
\* Inputs of the graph-function specification: arrow sequences of at most
\* FnArrows arrows.
FnArrows == 2
\* Inputs of the delete-confirmation dialog: projects of at most DlgTasks
\* tasks.
DlgTasks == 13

\* ------------------------------------------------------------ data values

\* JavaScript's null: for an arrow id (a string) and for a task id (a
\* number in the model; no task id is negative).
Null == "null"
NoTask == -1

ArrowTypes == {"straight", "smoothstep", "bezier"}

\* The label texts of the model: 0 is the text a task is created with, 1 a
\* text typed into the edit dialog.
Labels == {0, 1}

\* The canvas positions of the model: 0 is where a task is created, 1 a
\* place a task is dragged to.
Positions == {0, 1}

\* A task { id, data: { label, completed }, position }.
mkTask(id, label, completed) ==
  [id |-> id, label |-> label, completed |-> completed, pos |-> 0]

\* An arrow { id, source, target, type }.
mkArrow(id, source, target, type) ==
  [id |-> id, source |-> source, target |-> target, type |-> type]

\* tasks.find((n) => n.id === id)?.data.completed, used as a boolean: the
\* flag of the first task with that id; undefined (no such task) is falsy.
sourceCompleted(tasks, id) ==
  LET hits == SelectSeq(tasks, LAMBDA n : n.id = id)
  IN IF hits = <<>> THEN FALSE ELSE hits[1].completed

\* ------------------------------------------------ graphUtils: detectAllCycles

\* Object.keys(graph): the property names of the adjacency object.  The
\* names are the arrows' source ids; integer-like names enumerate in
\* ascending numeric order.
RECURSIVE sortAscending(_)
sortAscending(S) ==
  IF S = {} THEN <<>>
  ELSE LET m == CHOOSE x \in S : \A y \in S : x <= y
       IN <<m>> \o sortAscending(S \ {m})

graphKeys(arrows) ==
  sortAscending({arrows[i].source : i \in 1..Len(arrows)})

\* graph[taskId] || []: the targets of the arrows leaving taskId, in the
\* order of the arrow array.
graphNeighbors(arrows, taskId) ==
  LET out == SelectSeq(arrows, LAMBDA a : a.source = taskId)
  IN [i \in 1..Len(out) |-> out[i].target]

\* arrows.find((e) => e.source === taskId && e.target === neighbor)?.id:
\* the id of the first arrow of that ordered pair ("" when there is none;
\* `if (arrowId)` drops an empty id).
findArrowId(arrows, taskId, neighbor) ==
  LET hits == SelectSeq(arrows,
                LAMBDA a : a.source = taskId /\ a.target = neighbor)
  IN IF hits = <<>> THEN "" ELSE hits[1].id

\* The traversal state: the three sets the closure dfs mutates.
emptyDfs == [visited |-> {}, recStack |-> {}, cycleArrows |-> {}]

RECURSIVE dfs(_, _, _), dfsNeighbors(_, _, _, _, _)
dfsNoPop(arrows, taskId, st) ==
  dfsNeighbors(arrows, taskId, graphNeighbors(arrows, taskId), 1,
               [st EXCEPT !.visited = @ \cup {taskId},
                          !.recStack = @ \cup {taskId}])

dfs(arrows, taskId, st) ==
  LET entered == [st EXCEPT !.visited = @ \cup {taskId},
                            !.recStack = @ \cup {taskId}]
      after == dfsNeighbors(arrows, taskId,
                            graphNeighbors(arrows, taskId), 1, entered)
  IN [after EXCEPT !.recStack = @ \ {taskId}]

dfsNeighbors(arrows, taskId, neighbors, i, st) ==
  IF i > Len(neighbors) THEN st
  ELSE LET neighbor == neighbors[i]
           arrowId == findArrowId(arrows, taskId, neighbor)
           st2 == IF neighbor \notin st.visited
                    THEN dfs(arrows, neighbor, st)
                  ELSE IF neighbor \in st.recStack /\ arrowId # ""
                    THEN [st EXCEPT !.cycleArrows = @ \cup {arrowId}]
                  ELSE st
       IN dfsNeighbors(arrows, taskId, neighbors, i + 1, st2)

RECURSIVE dfsRoots(_, _, _, _)
dfsRoots(arrows, keys, i, st) ==
  IF i > Len(keys) THEN st
  ELSE dfsRoots(arrows, keys, i + 1,
                IF keys[i] \notin st.visited
                  THEN dfs(arrows, keys[i], st) ELSE st)

detectAllCycles(arrows) ==
  dfsRoots(arrows, graphKeys(arrows), 1, emptyDfs).cycleArrows

\* ------------------------------------- graphUtils: parents and styles

areAllParentsCompletedSkipMissing(taskId, tasks, arrows) ==
  LET parentArrows == SelectSeq(arrows, LAMBDA a : a.target = taskId)
  IN Len(parentArrows) = 0
     \/ \A i \in 1..Len(parentArrows) :
          \/ ~\E j \in 1..Len(tasks) : tasks[j].id = parentArrows[i].source
          \/ sourceCompleted(tasks, parentArrows[i].source)

areAllParentsCompletedIgnoringSelf(taskId, tasks, arrows) ==
  LET parentArrows == SelectSeq(arrows, LAMBDA a : a.target = taskId
                                                   /\ a.source # taskId)
  IN Len(parentArrows) = 0
     \/ \A i \in 1..Len(parentArrows) :
          sourceCompleted(tasks, parentArrows[i].source)

areAllParentsCompleted(taskId, tasks, arrows) ==
  LET parentArrows == SelectSeq(arrows, LAMBDA a : a.target = taskId)
  IN Len(parentArrows) = 0
     \/ \A i \in 1..Len(parentArrows) :
          sourceCompleted(tasks, parentArrows[i].source)

hasIncompleteParentAnyTask(taskId, tasks, arrows) ==
  \E i \in 1..Len(arrows) :
    arrows[i].target = taskId
    /\ ~sourceCompleted(tasks, arrows[i].source)

hasIncompleteParent(taskId, tasks, arrows) ==
  IF ~sourceCompleted(tasks, taskId) THEN FALSE
  ELSE \E i \in 1..Len(arrows) :
         arrows[i].target = taskId
         /\ ~sourceCompleted(tasks, arrows[i].source)

styleArrowSelectedBlack(arrow, cycleArrows, selectedArrowId) ==
  LET isSelected == arrow.id = selectedArrowId
      isCycled == arrow.id \in cycleArrows
      strokeColor == IF isCycled /\ ~isSelected THEN "red" ELSE "#000"
  IN [id |-> arrow.id, source |-> arrow.source, target |-> arrow.target,
      type |-> arrow.type,
      style |-> [stroke |-> strokeColor,
                 strokeWidth |-> IF isSelected THEN 3 ELSE 1],
      markerEnd |-> [type |-> "arrow", color |-> strokeColor]]

styleArrow(arrow, cycleArrows, selectedArrowId) ==
  LET isSelected == arrow.id = selectedArrowId
      isCycled == arrow.id \in cycleArrows
      strokeColor == IF isCycled THEN "red" ELSE "#000"
  IN [id |-> arrow.id, source |-> arrow.source, target |-> arrow.target,
      type |-> arrow.type,
      style |-> [stroke |-> strokeColor,
                 strokeWidth |-> IF isSelected THEN 3 ELSE 1],
      markerEnd |-> [type |-> "arrow", color |-> strokeColor]]

styleTaskBlockedFirst(task, tasks, arrows, selectedTaskId) ==
  LET allParentsCompleted == areAllParentsCompleted(task.id, tasks, arrows)
      hasIncomplete == hasIncompleteParent(task.id, tasks, arrows)
      isSelected == task.id = selectedTaskId
  IN [id |-> task.id, label |-> task.label, completed |-> task.completed,
      pos |-> task.pos,
      style |-> [background |-> IF task.completed THEN "#d4d4d4"
                                ELSE "undefined",
                 border |-> IF hasIncomplete THEN "2px solid red"
                            ELSE IF isSelected THEN "2px solid blue"
                            ELSE IF ~task.completed /\ allParentsCompleted
                              THEN "2px solid green"
                            ELSE "1px solid black"]]

styleTaskDemotingBlocked(task, tasks, arrows, selectedTaskId) ==
  LET allParentsCompleted == areAllParentsCompleted(task.id, tasks, arrows)
      hasIncomplete == hasIncompleteParent(task.id, tasks, arrows)
      isSelected == task.id = selectedTaskId
  IN [id |-> task.id, label |-> task.label,
      completed |-> task.completed /\ ~hasIncomplete,
      pos |-> task.pos,
      style |-> [background |-> IF task.completed THEN "#d4d4d4"
                                ELSE "undefined",
                 border |-> IF isSelected THEN "2px solid blue"
                            ELSE IF hasIncomplete THEN "2px solid red"
                            ELSE IF ~task.completed /\ allParentsCompleted
                              THEN "2px solid green"
                            ELSE "1px solid black"]]

styleTask(task, tasks, arrows, selectedTaskId) ==
  LET allParentsCompleted == areAllParentsCompleted(task.id, tasks, arrows)
      hasIncomplete == hasIncompleteParent(task.id, tasks, arrows)
      isSelected == task.id = selectedTaskId
  IN [id |-> task.id, label |-> task.label, completed |-> task.completed,
      pos |-> task.pos,
      style |-> [background |-> IF task.completed THEN "#d4d4d4"
                                ELSE "undefined",
                 border |-> IF isSelected THEN "2px solid blue"
                            ELSE IF hasIncomplete THEN "2px solid red"
                            ELSE IF ~task.completed /\ allParentsCompleted
                              THEN "2px solid green"
                            ELSE "1px solid black"]]

updateStyles(tasks, arrows, selectedTaskId, selectedArrowId) ==
  LET cycleArrows == detectAllCycles(arrows)
  IN [arrows |-> [i \in 1..Len(arrows) |->
                    styleArrow(arrows[i], cycleArrows, selectedArrowId)],
      tasks |-> [i \in 1..Len(tasks) |->
                    styleTask(tasks[i], tasks, arrows, selectedTaskId)]]

\* --------------------------------------------- reference graph notions

\* The task ids reachable from n along one or more arrows.
RECURSIVE reachFrom(_, _)
reachFrom(arrows, seen) ==
  LET more == seen \cup {arrows[i].target :
                           i \in {j \in 1..Len(arrows) :
                                    arrows[j].source \in seen}}
  IN IF more = seen THEN seen ELSE reachFrom(arrows, more)

reachable(arrows, n) ==
  reachFrom(arrows, {arrows[i].target :
                       i \in {j \in 1..Len(arrows) : arrows[j].source = n}})

\* The arrows that lie on a directed cycle: the source is reachable from
\* the target (or is the target).
onCycle(arrows, a) ==
  a.source = a.target \/ a.source \in reachable(arrows, a.target)

onCycleIds(arrows) ==
  {arrows[i].id : i \in {j \in 1..Len(arrows) : onCycle(arrows, arrows[j])}}

hasDirectedCycle(arrows) ==
  \E i \in 1..Len(arrows) : onCycle(arrows, arrows[i])

\* ------------------------------------------------------- program constants

\* FlowContent: the project shown when the project list is empty.
sampleProjectId == 0

sampleTaskIdCounter == 4

sampleProject ==
  [localId |-> sampleProjectId,
   tasks |-> <<mkTask(1, 0, FALSE), mkTask(2, 0, FALSE), mkTask(3, 0, FALSE)>>,
   arrows |-> <<mkArrow("e1", 1, 2, "straight"),
                mkArrow("e2", 2, 3, "straight")>>,
   taskIdCounter |-> sampleTaskIdCounter]

\* projectUtils.createNewLocalProject: the template of a new project.
templateTaskIdCounter == 1

templateProject(localId) ==
  [localId |-> localId,
   tasks |-> <<mkTask(0, 0, FALSE)>>,
   arrows |-> <<>>,
   taskIdCounter |-> templateTaskIdCounter]

\* ------------------------------------------------------------------ state

VARIABLES
  \* App state
  projects,            \* Project[]
  currentProjectIndex, \* index into projects, counted from 0
  \* FlowContent state
  tasks,               \* the live task array (useNodesState)
  arrows,              \* the live arrow array (useEdgesState)
  \* the task array onEdgeClick's closure holds: the callback is rebuilt
  \* only when the arrow array is replaced (its dependency list, line 261,
  \* has arrows but not tasks), so these are the tasks of the render that
  \* last replaced the arrows
  edgeClickTasks,
  arrowType,
  selectedTaskId,
  selectedArrowId,
  taskIdCounter,
  history,             \* the snapshot stack
  historyIndex,        \* the cursor, counted from 0; -1 before any record
  \* localStorage
  lsProjects,          \* item 'projects': <<>> when absent, else <<list>>
  lastProjectId,       \* item 'lastProjectId': NoTask when absent
  \* the timer handleProjectSwitch starts: <<>> or <<its closure>>
  pendingSwitch,
  \* uuidv4: the next fresh project id
  uuidCounter,
  \* the number of writes of localStorage's 'projects' so far by
  \* saveToLocalStorage, project creation, import and save as new
  writes,
  \* the pure-function specification: an arrow array, and <<the set
  \* detectAllCycles returned for it>> once it has been called (<<>> before)
  cyArrows,
  cyResult,
  \* the inputs of a call of areAllParentsCompleted, hasIncompleteParent or
  \* updateStyles (the arrows are cyArrows), and <<its result>> once it has
  \* been called (<<>> before)
  fnTasks,
  fnTaskId,
  fnSelectedTaskId,
  fnSelectedArrowId,
  fnResult,
  \* the file exportData last downloaded: <<>> or <<document>>
  exportedFile,
  \* the file importData last read: <<>> or <<file>>
  importedFile,
  \* whether importData has shown its alert
  alerted,
  \* whether an effect has thrown (React then unmounts the editor)
  crashed,
  \* FlowContent's isDragging state (line 154): a node drag is in progress
  isDragging

editorVars ==
  <<projects, currentProjectIndex, tasks, arrows, edgeClickTasks, arrowType,
    selectedTaskId,
    selectedArrowId, taskIdCounter, history, historyIndex, lsProjects,
    lastProjectId, pendingSwitch, uuidCounter, writes>>

cyVars == <<cyArrows, cyResult>>

fnVars == <<fnTasks, fnTaskId, fnSelectedTaskId, fnSelectedArrowId, fnResult>>

fileVars == <<exportedFile, importedFile, alerted, crashed>>

dragVars == <<isDragging>>

\* What the handlers of the first sections never touch.
restVars == <<cyVars, fnVars, fileVars, dragVars>>

vars == <<editorVars, restVars>>

\* FlowContent lines 140-143.
effectiveProjects == IF Len(projects) = 0 THEN <<sampleProject>> ELSE projects

effectiveIndex == IF Len(projects) = 0 THEN 0 ELSE currentProjectIndex

\* The project the editor shows (0-based index into a 1-based sequence).
activeProject == effectiveProjects[effectiveIndex + 1]

taskIds(ts) == {ts[i].id : i \in 1..Len(ts)}

arrowIds(as) == {as[i].id : i \in 1..Len(as)}

\* What setTasks / setArrows keep of an array updateStyles returned: the
\* tasks and arrows without the derived fields.
storedTasks(ts) ==
  [i \in 1..Len(ts) |->
     [id |-> ts[i].id, label |-> ts[i].label, completed |-> ts[i].completed,
      pos |-> ts[i].pos]]

storedArrows(as) ==
  [i \in 1..Len(as) |->
     [id |-> as[i].id, source |-> as[i].source, target |-> as[i].target,
      type |-> as[i].type]]

\* ------------------------------------------------------------------- Init

\* The session starts on a return visit: localStorage holds the project
\* list an earlier session left there.  That session made a project from
\* the template (one task, id 0, taskIdCounter 1), marked the task
\* completed, and saved on unload (lines 203-212).
savedProject ==
  [localId |-> 1,
   tasks |-> <<mkTask(0, 0, TRUE)>>,
   arrows |-> <<>>,
   taskIdCounter |-> templateTaskIdCounter]

InitReturnVisit ==
  /\ projects = <<savedProject>>
  /\ lsProjects = <<projects>>
  /\ lastProjectId = savedProject.localId
  /\ uuidCounter = 2

InitEditor ==
  /\ InitReturnVisit
  /\ currentProjectIndex = 0
  /\ tasks = projects[1].tasks
  /\ arrows = projects[1].arrows
  /\ edgeClickTasks = tasks
  /\ arrowType = "straight"
  /\ selectedTaskId = NoTask
  /\ selectedArrowId = Null
  /\ taskIdCounter = projects[1].taskIdCounter
  /\ history = <<>>
  /\ historyIndex = -1
  /\ pendingSwitch = <<>>
  /\ writes = 0

\* No file has been exported or refused yet.
InitFiles ==
  /\ exportedFile = <<>>
  /\ importedFile = <<>>
  /\ alerted = FALSE
  /\ crashed = FALSE
  /\ isDragging = FALSE

\* No pure function is being called.
InitNoCall ==
  /\ fnTasks = <<>>
  /\ fnTaskId = NoTask
  /\ fnSelectedTaskId = NoTask
  /\ fnSelectedArrowId = Null
  /\ fnResult = <<>>

Init ==
  /\ InitEditor
  /\ InitFiles
  /\ InitNoCall
  /\ cyArrows = <<>>
  /\ cyResult = <<>>

\* ------------------------------------------------- saveToLocalStorage

\* saveToLocalStorage is a useCallback whose dependency list names every
\* value it reads, so a handler always calls the one built by the latest
\* render: it reads that render's tasks, arrows, taskIdCounter,
\* historyIndex and project list, i.e. the unprimed variables, whatever
\* the handler queued before calling it.

\* updatedProjects (lines 168-172)
savedProjects ==
  [i \in 1..Len(effectiveProjects) |->
     IF i - 1 = effectiveIndex
     THEN [effectiveProjects[i] EXCEPT !.tasks = tasks, !.arrows = arrows,
                                       !.taskIdCounter = taskIdCounter]
     ELSE effectiveProjects[i]]

\* newHistory (line 177); prev is the history of the same render, no
\* handler queues two history updates.
recordedHistoryKeepAll ==
  history \o <<[tasks |-> tasks, arrows |-> arrows]>>

recordedHistory ==
  SubSeq(history, 1, historyIndex + 1)
    \o <<[tasks |-> tasks, arrows |-> arrows]>>

\* The bound of the model on the number of writes.
canWrite == writes < MaxWrites

saveToLocalStorage ==
  /\ projects' = savedProjects
  /\ lsProjects' = <<savedProjects>>
  /\ lastProjectId' = activeProject.localId
  /\ history' = recordedHistory
  /\ historyIndex' = Len(recordedHistory) - 1
  /\ writes' = writes + 1

\* No handler runs between handleProjectSwitch and its zero-delay timer.
idle == pendingSwitch = <<>>

\* --------------------------------------------------------------- handlers

\* addTask (lines 287-320)
addTask ==
  /\ idle /\ canWrite
  /\ LET newTask == mkTask(taskIdCounter, 0, FALSE)
         styled == updateStyles(Append(tasks, newTask), arrows,
                                selectedTaskId, selectedArrowId)
     IN /\ tasks' = storedTasks(styled.tasks)
        /\ arrows' = storedArrows(styled.arrows)
        /\ edgeClickTasks' = tasks'
  /\ taskIdCounter' = taskIdCounter + 1
  /\ saveToLocalStorage
  /\ UNCHANGED <<currentProjectIndex, arrowType, selectedTaskId,
                 selectedArrowId, pendingSwitch, uuidCounter, restVars>>

\* onConnect (lines 227-251); reactflow passes the ids of two tasks of
\* the canvas (a task's own two handles included).
onConnectNoDuplicateCheck(source, target) ==
  /\ idle /\ canWrite
  /\ LET newEdge == mkArrow("e" \o ToString(Len(arrows) + 1),
                            source, target, arrowType)
         styled == updateStyles(tasks, Append(arrows, newEdge),
                                selectedTaskId, selectedArrowId)
     IN /\ tasks' = storedTasks(styled.tasks)
        /\ arrows' = storedArrows(styled.arrows)
        /\ edgeClickTasks' = tasks'
  /\ saveToLocalStorage
  /\ UNCHANGED <<currentProjectIndex, arrowType, selectedTaskId,
                 selectedArrowId, taskIdCounter, pendingSwitch,
                 uuidCounter, restVars>>

onConnect(source, target) ==
  /\ idle
  /\ LET isDuplicate == \E i \in 1..Len(arrows) :
                          arrows[i].source = source
                          /\ arrows[i].target = target
     IN IF isDuplicate
        THEN UNCHANGED vars
        ELSE /\ canWrite
             /\ LET newEdge == mkArrow("e" \o ToString(Len(arrows) + 1),
                                       source, target, arrowType)
                    styled == updateStyles(tasks, Append(arrows, newEdge),
                                           selectedTaskId, selectedArrowId)
                IN /\ tasks' = storedTasks(styled.tasks)
                   /\ arrows' = storedArrows(styled.arrows)
                   /\ edgeClickTasks' = tasks'
             /\ saveToLocalStorage
             /\ UNCHANGED <<currentProjectIndex, arrowType, selectedTaskId,
                            selectedArrowId, taskIdCounter, pendingSwitch,
                            uuidCounter, restVars>>

\* onEdgeClick (lines 253-262)
onEdgeClick(edgeId) ==
  /\ idle
  /\ selectedArrowId' = edgeId
  /\ selectedTaskId' = NoTask
  /\ LET styled == updateStyles(edgeClickTasks, arrows, NoTask, edgeId)
     IN /\ tasks' = storedTasks(styled.tasks)
        /\ arrows' = storedArrows(styled.arrows)
        /\ edgeClickTasks' = tasks'
  /\ UNCHANGED <<projects, currentProjectIndex, arrowType, taskIdCounter,
                 history, historyIndex, lsProjects, lastProjectId,
                 pendingSwitch, uuidCounter, restVars, writes>>

\* onTaskClick (lines 322-325)
onTaskClickKeepArrow(taskId) ==
  /\ idle
  /\ selectedTaskId' = taskId
  /\ UNCHANGED <<projects, currentProjectIndex, tasks, arrows, edgeClickTasks,
                 arrowType,
                 selectedArrowId, taskIdCounter, history, historyIndex,
                 lsProjects, lastProjectId, pendingSwitch, uuidCounter,
                 restVars, writes>>

onTaskClick(taskId) ==
  /\ idle
  /\ selectedTaskId' = taskId
  /\ selectedArrowId' = Null
  /\ UNCHANGED <<projects, currentProjectIndex, tasks, arrows, edgeClickTasks,
                 arrowType,
                 taskIdCounter, history, historyIndex, lsProjects,
                 lastProjectId, pendingSwitch, uuidCounter, restVars, writes>>

\* onPaneClick (lines 327-333)
onPaneClick ==
  /\ idle
  /\ selectedTaskId' = NoTask
  /\ selectedArrowId' = Null
  /\ LET styled == updateStyles(tasks, arrows, NoTask, Null)
     IN /\ tasks' = storedTasks(styled.tasks)
        /\ arrows' = storedArrows(styled.arrows)
        /\ edgeClickTasks' = tasks'
  /\ UNCHANGED <<projects, currentProjectIndex, arrowType, taskIdCounter,
                 history, historyIndex, lsProjects, lastProjectId,
                 pendingSwitch, uuidCounter, restVars, writes>>

\* deleteSelected (lines 339-360)
deleteSelectedKeepArrows ==
  /\ idle
  /\ IF selectedTaskId # NoTask
     THEN /\ canWrite
          /\ LET updatedTasks ==
                   SelectSeq(tasks, LAMBDA t : t.id # selectedTaskId)
                 styled == updateStyles(updatedTasks, arrows,
                                        NoTask, selectedArrowId)
             IN /\ tasks' = storedTasks(styled.tasks)
                /\ arrows' = storedArrows(styled.arrows)
                /\ edgeClickTasks' = tasks'
          /\ selectedTaskId' = NoTask
          /\ saveToLocalStorage
          /\ UNCHANGED <<currentProjectIndex, arrowType, selectedArrowId,
                         taskIdCounter, pendingSwitch, uuidCounter, restVars>>
     ELSE IF selectedArrowId # Null
     THEN /\ canWrite
          /\ LET updatedArrows ==
                   SelectSeq(arrows, LAMBDA a : a.id # selectedArrowId)
                 styled == updateStyles(tasks, updatedArrows, NoTask, Null)
             IN /\ tasks' = storedTasks(styled.tasks)
                /\ arrows' = storedArrows(styled.arrows)
                /\ edgeClickTasks' = tasks'
          /\ selectedArrowId' = Null
          /\ saveToLocalStorage
          /\ UNCHANGED <<currentProjectIndex, arrowType, selectedTaskId,
                         taskIdCounter, pendingSwitch, uuidCounter, restVars>>
     ELSE UNCHANGED vars

deleteSelected ==
  /\ idle
  /\ IF selectedTaskId # NoTask
     THEN /\ canWrite
          /\ LET updatedTasks ==
                   SelectSeq(tasks, LAMBDA t : t.id # selectedTaskId)
                 updatedArrows ==
                   SelectSeq(arrows, LAMBDA a : a.source # selectedTaskId
                                                /\ a.target # selectedTaskId)
                 styled == updateStyles(updatedTasks, updatedArrows,
                                        NoTask, selectedArrowId)
             IN /\ tasks' = storedTasks(styled.tasks)
                /\ arrows' = storedArrows(styled.arrows)
                /\ edgeClickTasks' = tasks'
          /\ selectedTaskId' = NoTask
          /\ saveToLocalStorage
          /\ UNCHANGED <<currentProjectIndex, arrowType, selectedArrowId,
                         taskIdCounter, pendingSwitch, uuidCounter, restVars>>
     ELSE IF selectedArrowId # Null
     THEN /\ canWrite
          /\ LET updatedArrows ==
                   SelectSeq(arrows, LAMBDA a : a.id # selectedArrowId)
                 styled == updateStyles(tasks, updatedArrows, NoTask, Null)
             IN /\ tasks' = storedTasks(styled.tasks)
                /\ arrows' = storedArrows(styled.arrows)
                /\ edgeClickTasks' = tasks'
          /\ selectedArrowId' = Null
          /\ saveToLocalStorage
          /\ UNCHANGED <<currentProjectIndex, arrowType, selectedTaskId,
                         taskIdCounter, pendingSwitch, uuidCounter, restVars>>
     ELSE UNCHANGED vars

\* EditModal.handleSave (EditProjectTitleModal.tsx lines 108-112): the
\* value the dialog passes to onSave.  The dialog uses its own copy of
\* areAllParentsCompleted (lines 84-87), the same text as graphUtils'.
handleSaveCompleted(task, completed) ==
  LET canComplete == areAllParentsCompleted(task.id, tasks, arrows)
  IN IF task.completed THEN completed
     ELSE IF canComplete THEN completed ELSE FALSE

\* updateTask's newCompleted (lines 367-368)
updateTaskCompletedRegated(t, prevTasks, completed) ==
  IF areAllParentsCompleted(t.id, prevTasks, arrows) THEN completed
  ELSE FALSE

updateTaskCompletedWrongClamp(t, prevTasks, completed) ==
  LET canComplete == areAllParentsCompleted(t.id, prevTasks, arrows)
  IN IF t.completed THEN completed
     ELSE IF canComplete THEN completed ELSE TRUE

updateTaskCompleted(t, prevTasks, completed) ==
  LET canComplete == areAllParentsCompleted(t.id, prevTasks, arrows)
  IN IF t.completed THEN completed
     ELSE IF canComplete THEN completed ELSE FALSE

\* updateTask (lines 362-380)
updateTask(id, label, completed) ==
  /\ canWrite
  /\ LET newTasks ==
           [i \in 1..Len(tasks) |->
              IF tasks[i].id = id
              THEN [tasks[i] EXCEPT
                      !.label = label,
                      !.completed =
                         updateTaskCompleted(tasks[i], tasks, completed)]
              ELSE tasks[i]]
         styled == updateStyles(newTasks, arrows, selectedTaskId,
                                selectedArrowId)
     IN /\ tasks' = storedTasks(styled.tasks)
        /\ arrows' = storedArrows(styled.arrows)
        /\ edgeClickTasks' = tasks'
  /\ saveToLocalStorage
  /\ UNCHANGED <<currentProjectIndex, arrowType, selectedTaskId,
                 selectedArrowId, taskIdCounter, pendingSwitch, uuidCounter,
                 restVars>>

\* The task-edit operation: a double click on task number i of the canvas
\* opens the dialog on it (onTaskDoubleClick, lines 335-337), the user sets
\* the label and the checkbox, and Save runs handleSave, which calls
\* updateTask.  The dialog covers the editor while it is open.
editTaskKeepingLabelWhenBlocked(i, label, completed) ==
  /\ idle
  /\ i \in 1..Len(tasks)
  /\ IF completed /\ ~tasks[i].completed
        /\ ~areAllParentsCompleted(tasks[i].id, tasks, arrows)
     THEN updateTask(tasks[i].id, tasks[i].label, FALSE)
     ELSE updateTask(tasks[i].id, label,
                     handleSaveCompleted(tasks[i], completed))

editTask(i, label, completed) ==
  /\ idle
  /\ i \in 1..Len(tasks)
  /\ updateTask(tasks[i].id, label, handleSaveCompleted(tasks[i], completed))

\* handleArrowTypeChange (lines 264-280)
handleArrowTypeChange(newType) ==
  /\ idle /\ canWrite
  /\ arrowType' = newType
  /\ LET updatedArrows ==
           [i \in 1..Len(arrows) |->
              [arrows[i] EXCEPT !.type = newType]]
         styled == updateStyles(tasks, updatedArrows, selectedTaskId,
                                selectedArrowId)
     IN /\ tasks' = storedTasks(styled.tasks)
        /\ arrows' = storedArrows(styled.arrows)
        /\ edgeClickTasks' = tasks'
  /\ saveToLocalStorage
  /\ UNCHANGED <<currentProjectIndex, selectedTaskId, selectedArrowId,
                 taskIdCounter, pendingSwitch, uuidCounter, restVars>>

\* undo (lines 184-191)
undoTruncating ==
  /\ idle
  /\ IF historyIndex > 0
     THEN /\ historyIndex' = historyIndex - 1
          /\ tasks' = history[historyIndex].tasks
          /\ arrows' = history[historyIndex].arrows
          /\ edgeClickTasks' = tasks'
          /\ history' = SubSeq(history, 1, historyIndex)
          /\ UNCHANGED <<projects, currentProjectIndex, arrowType,
                         selectedTaskId, selectedArrowId, taskIdCounter,
                         lsProjects, lastProjectId, pendingSwitch,
                         uuidCounter, restVars, writes>>
     ELSE UNCHANGED vars

undoUnguarded ==
  /\ idle
  /\ IF historyIndex >= 0
     THEN /\ historyIndex' = historyIndex - 1
          /\ tasks' = IF historyIndex > 0 THEN history[historyIndex].tasks
                      ELSE tasks
          /\ arrows' = IF historyIndex > 0 THEN history[historyIndex].arrows
                       ELSE arrows
          /\ edgeClickTasks' = IF historyIndex > 0 THEN tasks'
                               ELSE edgeClickTasks
          /\ UNCHANGED <<projects, currentProjectIndex, arrowType,
                         selectedTaskId, selectedArrowId, taskIdCounter,
                         history, lsProjects, lastProjectId, pendingSwitch,
                         uuidCounter, restVars, writes>>
     ELSE UNCHANGED vars

undoResettingCounter ==
  /\ idle
  /\ IF historyIndex > 0
     THEN /\ historyIndex' = historyIndex - 1
          /\ tasks' = history[historyIndex].tasks
          /\ arrows' = history[historyIndex].arrows
          /\ edgeClickTasks' = tasks'
          /\ taskIdCounter' = Len(history[historyIndex].tasks)
          /\ UNCHANGED <<projects, currentProjectIndex, arrowType,
                         selectedTaskId, selectedArrowId,
                         history, lsProjects, lastProjectId, pendingSwitch,
                         uuidCounter, restVars, writes>>
     ELSE UNCHANGED vars

undo ==
  /\ idle
  /\ IF historyIndex > 0
     THEN /\ historyIndex' = historyIndex - 1
          /\ tasks' = history[historyIndex].tasks
          /\ arrows' = history[historyIndex].arrows
          /\ edgeClickTasks' = tasks'
          /\ UNCHANGED <<projects, currentProjectIndex, arrowType,
                         selectedTaskId, selectedArrowId, taskIdCounter,
                         history, lsProjects, lastProjectId, pendingSwitch,
                         uuidCounter, restVars, writes>>
     ELSE UNCHANGED vars

\* redo (lines 194-201)
redo ==
  /\ idle
  /\ IF historyIndex < Len(history) - 1
     THEN /\ historyIndex' = historyIndex + 1
          /\ tasks' = history[historyIndex + 2].tasks
          /\ arrows' = history[historyIndex + 2].arrows
          /\ edgeClickTasks' = tasks'
          /\ UNCHANGED <<projects, currentProjectIndex, arrowType,
                         selectedTaskId, selectedArrowId, taskIdCounter,
                         history, lsProjects, lastProjectId, pendingSwitch,
                         uuidCounter, restVars, writes>>
     ELSE UNCHANGED vars

\* The live snapshot undo (lines 184-191) leaves when it is called with
\* this history, cursor and live snapshot, and the one redo (lines
\* 194-201) leaves.
afterUndo(h, idx, ts, as) ==
  IF idx > 0 THEN [tasks |-> h[idx].tasks, arrows |-> h[idx].arrows]
  ELSE [tasks |-> ts, arrows |-> as]

afterRedo(h, idx, ts, as) ==
  IF idx < Len(h) - 1
  THEN [tasks |-> h[idx + 2].tasks, arrows |-> h[idx + 2].arrows]
  ELSE [tasks |-> ts, arrows |-> as]

\* effectiveProjects.findIndex((p) => p.localId === id), counted from 0;
\* -1 when no project has that id.
findProjectIndex(ps, id) ==
  IF \E i \in 1..Len(ps) : ps[i].localId = id
  THEN (CHOOSE i \in 1..Len(ps) :
          ps[i].localId = id /\ \A j \in 1..(i - 1) : ps[j].localId # id) - 1
  ELSE -1

\* handleProjectSwitch (lines 460-487), up to the setTimeout call.  The
\* argument is a project object of the rendered list (the selector's
\* option or the dialog's button).
handleProjectSwitch(i) ==
  /\ idle /\ canWrite
  /\ i \in 1..Len(effectiveProjects)
  /\ saveToLocalStorage
  /\ tasks' = <<>>
  /\ arrows' = <<>>
  /\ edgeClickTasks' = tasks'
  /\ pendingSwitch' =
       <<[project |-> effectiveProjects[i],
          index |-> findProjectIndex(effectiveProjects,
                                     effectiveProjects[i].localId)]>>
  /\ UNCHANGED <<currentProjectIndex, arrowType, selectedTaskId,
                 selectedArrowId, taskIdCounter, uuidCounter, restVars>>

\* The timer callback of handleProjectSwitch (lines 465-484).
projectSwitchTimer ==
  /\ pendingSwitch # <<>>
  /\ LET project == pendingSwitch[1].project
         unifiedArrows ==
           [i \in 1..Len(project.arrows) |->
              [project.arrows[i] EXCEPT !.type = arrowType]]
         styled == updateStyles(project.tasks, unifiedArrows, selectedTaskId,
                                selectedArrowId)
     IN /\ currentProjectIndex' = pendingSwitch[1].index
        /\ tasks' = storedTasks(styled.tasks)
        /\ arrows' = storedArrows(styled.arrows)
        /\ edgeClickTasks' = tasks'
        /\ taskIdCounter' = project.taskIdCounter
        /\ lastProjectId' = project.localId
  /\ pendingSwitch' = <<>>
  /\ UNCHANGED <<projects, arrowType, selectedTaskId, selectedArrowId,
                 history, historyIndex, lsProjects, uuidCounter, restVars, writes>>

\* handleCreateNewProject (lines 499-502) and
\* projectUtils.createNewLocalProject (lines 6-31)
handleCreateNewProject ==
  /\ idle /\ canWrite
  /\ LET newProject == templateProject(uuidCounter)
         updatedProjects == Append(projects, newProject)
     IN /\ projects' = updatedProjects
        /\ currentProjectIndex' = Len(updatedProjects) - 1
        /\ tasks' = newProject.tasks
        /\ arrows' = newProject.arrows
        /\ edgeClickTasks' = tasks'
        /\ taskIdCounter' = newProject.taskIdCounter
        /\ lsProjects' = <<updatedProjects>>
        /\ lastProjectId' = newProject.localId
  /\ uuidCounter' = uuidCounter + 1
  /\ writes' = writes + 1
  /\ UNCHANGED <<arrowType, selectedTaskId, selectedArrowId, history,
                 historyIndex, pendingSwitch, restVars>>

\* ------------------------------------------------------ export and import

\* A file is a text.  JSON.stringify(data) of exportData's object is the
\* text of an object with the members tasks, arrows and taskIdCounter (an
\* optional member is <<>> when absent, <<value>> when present; title and
\* viewport are not modelled).  Ids and labels are strings, the flags
\* booleans and the counter an integer, which JSON writes and reads back
\* exactly.
jsonStringify(data) ==
  [kind |-> "json", tasks |-> <<data.tasks>>, arrows |-> <<data.arrows>>,
   taskIdCounter |-> <<data.taskIdCounter>>]

\* Other files a user can pick: a text that is not JSON, the text `null`
\* and the text `{}`.
garbageFile == [kind |-> "garbage"]

nullFile == [kind |-> "null"]

emptyObjectFile ==
  [kind |-> "json", tasks |-> <<>>, arrows |-> <<>>, taskIdCounter |-> <<>>]

\* exportData (lines 396-406)
exportData ==
  /\ idle /\ ~crashed
  /\ exportedFile' =
       <<jsonStringify([tasks |-> tasks, arrows |-> arrows,
                        taskIdCounter |-> taskIdCounter])>>
  /\ UNCHANGED <<editorVars, cyVars, fnVars, isDragging, importedFile, alerted,
                 crashed>>

\* data.taskIdCounter || 4 (lines 432 and 441)
importTaskIdCounter == 4

\* The object the try block of reader.onload works on (lines 415-416):
\* <<>> when the block throws before it changes anything (JSON.parse on a
\* text that is not JSON, data.arrows on null), else <<data>>.
importedDataLenient(file) ==
  IF file.kind = "json" THEN <<file>> ELSE <<emptyObjectFile>>

importedData(file) ==
  IF file.kind = "json" THEN <<file>> ELSE <<>>

\* importData (lines 408-456) with reader.onload, and the effect of lines
\* 489-497 that runs after the render the import causes.
\*
\* onload calls setProjects with an updater that itself calls
\* saveToLocalStorage, i.e. setProjects(the list of the render before the
\* import).  When React runs the updater at once (eager), the inner call
\* is queued first and the list ends as [...prevProjects, newProject];
\* when React runs it while rendering App, the inner call is applied last
\* and the list ends without the new project, with currentProjectIndex
\* one past its end.
\*
\* Either way the localStorage item lastProjectId is then the id of the
\* project that was active before the import, so the effect finds that
\* project in the list.  With the index past the end of the list the
\* effect throws; with the new project active it calls
\* handleProjectSwitch(lastProject), which records the imported snapshot,
\* empties the canvas and starts the timer that loads the old project.
importData(file, eager) ==
  /\ idle /\ ~crashed
  /\ importedFile' = <<file>>
  /\ IF importedData(file) = <<>>
     THEN /\ alerted' = TRUE
          /\ UNCHANGED <<editorVars, cyVars, fnVars, isDragging, exportedFile,
                         crashed>>
     ELSE
       LET data == importedData(file)[1]
           dataArrows == IF data.arrows = <<>>
                           THEN effectiveProjects[1].arrows
                         ELSE data.arrows[1]
           dataTasks == IF data.tasks = <<>>
                          THEN effectiveProjects[1].tasks
                        ELSE data.tasks[1]
           counter == IF data.taskIdCounter = <<>>
                         \/ data.taskIdCounter[1] = 0
                        THEN importTaskIdCounter
                      ELSE data.taskIdCounter[1]
           updatedArrows == [i \in 1..Len(dataArrows) |->
                               [dataArrows[i] EXCEPT !.type = arrowType]]
           styled == updateStyles(dataTasks, updatedArrows, selectedTaskId,
                                  selectedArrowId)
           updatedTasks == storedTasks(styled.tasks)
           styledArrows == storedArrows(styled.arrows)
           newProject == [localId |-> uuidCounter, tasks |-> updatedTasks,
                          arrows |-> styledArrows, taskIdCounter |-> counter]
           \* the render after onload
           projects1 == IF eager THEN Append(projects, newProject)
                        ELSE savedProjects
           index1 == Len(projects)
           history1 == recordedHistory
           lastId1 == activeProject.localId
           found == \E i \in 1..Len(projects1) :
                      projects1[i].localId = lastId1
           \* the effect's handleProjectSwitch, called by that render
           lastProject ==
             projects1[findProjectIndex(projects1, lastId1) + 1]
           saved2 == [i \in 1..Len(projects1) |->
                        IF i - 1 = index1
                        THEN [projects1[i] EXCEPT
                                !.tasks = updatedTasks,
                                !.arrows = styledArrows,
                                !.taskIdCounter = counter]
                        ELSE projects1[i]]
           history2 == history1
                         \o <<[tasks |-> updatedTasks,
                               arrows |-> styledArrows]>>
       IN /\ writes + 2 <= MaxWrites
          /\ currentProjectIndex' = index1
          /\ taskIdCounter' = counter
          /\ uuidCounter' = uuidCounter + 1
          /\ IF index1 >= Len(projects1)
             THEN \* the effect reads the localId of undefined and throws
                  /\ found
                  /\ crashed' = TRUE
                  /\ projects' = projects1
                  /\ lsProjects' = <<savedProjects>>
                  /\ lastProjectId' = lastId1
                  /\ tasks' = updatedTasks
                  /\ arrows' = styledArrows
                  /\ edgeClickTasks' = tasks'
                  /\ history' = history1
                  /\ historyIndex' = Len(history1) - 1
                  /\ writes' = writes + 1
                  /\ UNCHANGED pendingSwitch
             ELSE IF found /\ projects1[index1 + 1].localId # lastId1
             THEN /\ crashed' = FALSE
                  /\ projects' = saved2
                  /\ lsProjects' = <<saved2>>
                  /\ lastProjectId' = projects1[index1 + 1].localId
                  /\ tasks' = <<>>
                  /\ arrows' = <<>>
                  /\ edgeClickTasks' = tasks'
                  /\ history' = history2
                  /\ historyIndex' = Len(history2) - 1
                  /\ writes' = writes + 2
                  /\ pendingSwitch' =
                       <<[project |-> lastProject,
                          index |-> findProjectIndex(projects1, lastId1)]>>
             ELSE /\ crashed' = FALSE
                  /\ projects' = projects1
                  /\ lsProjects' = <<savedProjects>>
                  /\ lastProjectId' = lastId1
                  /\ tasks' = updatedTasks
                  /\ arrows' = styledArrows
                  /\ edgeClickTasks' = tasks'
                  /\ history' = history1
                  /\ historyIndex' = Len(history1) - 1
                  /\ writes' = writes + 1
                  /\ UNCHANGED pendingSwitch
          /\ UNCHANGED <<arrowType, selectedTaskId, selectedArrowId, cyVars,
                         fnVars, isDragging, exportedFile, alerted>>

\* ------------------------------------------- delete-confirmation dialog

\* DeleteConfirmModal.tsx line 7
MAX_DISPLAY_TASKS == 10

\* Array.prototype.slice(start, end) for start >= 0: a negative end counts
\* from the end of the array, and both ends are clamped to the array.
jsSlice(seq, start, end) ==
  LET len == Len(seq)
      to == IF end < 0 THEN (IF len + end < 0 THEN 0 ELSE len + end)
            ELSE IF end > len THEN len ELSE end
      from == IF start > len THEN len ELSE start
  IN IF from >= to THEN <<>> ELSE SubSeq(seq, from + 1, to)

\* DeleteConfirmModal (lines 23-30): the tasks the dialog lists and the
\* count it reports as remaining.
dialogList(project) ==
  LET incompleteTasks == SelectSeq(project.tasks, LAMBDA t : ~t.completed)
      completedTasks == SelectSeq(project.tasks, LAMBDA t : t.completed)
      displayedTasks ==
        jsSlice(incompleteTasks, 0, MAX_DISPLAY_TASKS)
          \o jsSlice(completedTasks, 0,
                     MAX_DISPLAY_TASKS - Len(incompleteTasks))
  IN [displayedTasks |-> displayedTasks,
      remainingTasks |-> Len(project.tasks) - Len(displayedTasks)]

\* ------------------------------------------------- project management

\* The save-as-new button (lines 716-722) and
\* projectUtils.saveCurrentProjectAsNew (lines 33-62).
\*
\* The function queues setProjects(updater) and then calls
\* saveToLocalStorage, which queues setProjects(updatedProjects), the list
\* of the render before the click: React applies the two in that order, so
\* the list ends as updatedProjects, without the copy, while the updater's
\* setCurrentProjectIndex(updatedProjects.length - 1) stands.
\*
\* The updater also writes localStorage.  When React runs it at once
\* (eager), saveToLocalStorage's writes come last: 'projects' has no copy
\* and lastProjectId is the id of the project that was active, so the
\* effect of lines 489-497 finds that project and then reads the localId
\* of effectiveProjects[effectiveIndex], which is undefined: it throws.
\* When React runs the updater while rendering App, the updater's writes
\* come last: 'projects' has the copy and lastProjectId is the copy's id,
\* which no project of the rendered list has, so the effect does nothing.
saveCurrentProjectAsNew(eager) ==
  /\ idle /\ ~crashed
  /\ writes + 2 <= MaxWrites
  /\ Len(projects) > 0
  /\ LET currentProject == projects[effectiveIndex + 1]
         newProject == [currentProject EXCEPT
                          !.localId = uuidCounter,
                          !.tasks = tasks,
                          !.arrows = arrows,
                          !.taskIdCounter = taskIdCounter]
         updatedProjects == Append(projects, newProject)
     IN /\ projects' = savedProjects
        /\ currentProjectIndex' = Len(updatedProjects) - 1
        /\ history' = recordedHistory
        /\ historyIndex' = Len(recordedHistory) - 1
        /\ IF eager
           THEN /\ lsProjects' = <<savedProjects>>
                /\ lastProjectId' = activeProject.localId
                /\ crashed' = TRUE
           ELSE /\ lsProjects' = <<updatedProjects>>
                /\ lastProjectId' = newProject.localId
                /\ crashed' = FALSE
  /\ uuidCounter' = uuidCounter + 1
  /\ writes' = writes + 2
  /\ UNCHANGED <<tasks, arrows, edgeClickTasks, arrowType, selectedTaskId,
                 selectedArrowId, taskIdCounter, pendingSwitch, cyVars,
                 fnVars, isDragging, exportedFile, importedFile, alerted>>

\* The delete button of the project dialog: ProjectSelectModal's
\* confirmDelete (lines 30-35), FlowContent's onDelete (line 516) and
\* projectUtils.handleDeleteProject (lines 64-92), for project number i of
\* the list the dialog shows.  When the list becomes empty the effect of
\* lines 214-225 installs the sample project after the next render; the
\* effect of lines 489-497 then finds it active and does nothing.
handleDeleteProject(i) ==
  /\ idle /\ ~crashed
  /\ i \in 1..Len(effectiveProjects)
  /\ LET localId == effectiveProjects[i].localId
         updatedProjects == SelectSeq(projects, LAMBDA p : p.localId # localId)
         newIndex == IF effectiveIndex >= Len(updatedProjects)
                       THEN Len(updatedProjects) - 1
                     ELSE effectiveIndex
     IN IF Len(updatedProjects) > 0
        THEN /\ projects' = updatedProjects
             /\ currentProjectIndex' = newIndex
             /\ tasks' = updatedProjects[newIndex + 1].tasks
             /\ arrows' = updatedProjects[newIndex + 1].arrows
             /\ edgeClickTasks' = tasks'
             /\ taskIdCounter' = updatedProjects[newIndex + 1].taskIdCounter
             /\ lastProjectId' = updatedProjects[newIndex + 1].localId
             /\ lsProjects' = <<updatedProjects>>
        ELSE /\ projects' = <<sampleProject>>
             /\ currentProjectIndex' = 0
             /\ tasks' = sampleProject.tasks
             /\ arrows' = sampleProject.arrows
             /\ edgeClickTasks' = tasks'
             /\ taskIdCounter' = sampleProject.taskIdCounter
             /\ lastProjectId' = sampleProject.localId
             /\ lsProjects' = <<<<sampleProject>>>>
  /\ UNCHANGED <<arrowType, selectedTaskId, selectedArrowId, history,
                 historyIndex, pendingSwitch, uuidCounter, writes, restVars>>

\* ----------------------------------------------------------- node drag

\* handleNodesChange (lines 382-394) on the position change reactflow sends
\* for task i: onTasksChange applies the position; a change sent while the
\* pointer is down sets isDragging, the change that ends a drag clears it
\* and calls saveToLocalStorage.  Neither replaces the arrows, so the
\* onEdgeClick in use keeps the tasks it was created with.
handleNodesChange(i, position, dragging) ==
  /\ idle
  /\ tasks' = [tasks EXCEPT ![i].pos = position]
  /\ IF dragging
     THEN /\ isDragging' = TRUE
          /\ UNCHANGED <<projects, lsProjects, lastProjectId, history,
                         historyIndex, writes>>
     ELSE IF isDragging
     THEN /\ canWrite
          /\ isDragging' = FALSE
          /\ saveToLocalStorage
     ELSE UNCHANGED <<isDragging, projects, lsProjects, lastProjectId,
                      history, historyIndex, writes>>
  /\ UNCHANGED <<currentProjectIndex, arrows, edgeClickTasks, arrowType,
                 selectedTaskId, selectedArrowId, taskIdCounter,
                 pendingSwitch, uuidCounter, cyVars, fnVars, fileVars>>

\* ------------------------------------------------------- specifications

Next ==
  \/ addTask
  \/ \E s \in taskIds(tasks), t \in taskIds(tasks) : onConnect(s, t)
  \/ \E e \in arrowIds(arrows) : onEdgeClick(e)
  \/ \E t \in taskIds(tasks) : onTaskClick(t)
  \/ onPaneClick
  \/ deleteSelected
  \/ \E i \in 1..Len(tasks), l \in Labels, c \in BOOLEAN :
       editTask(i, l, c)
  \/ \E ty \in ArrowTypes : handleArrowTypeChange(ty)
  \/ undo
  \/ redo
  \/ \E i \in 1..Len(effectiveProjects) : handleProjectSwitch(i)
  \/ projectSwitchTimer
  \/ handleCreateNewProject

Spec == Init /\ [][Next]_vars

\* The pure-function specification: every arrow array of at most CyLen
\* arrows over the task ids CyTaskIds, arrow number k having the id "e<k>"
\* (distinct and non-empty), and one call of detectAllCycles on it.
CyTaskIds == 1..CyNodes

CyPairs == CyTaskIds \X CyTaskIds

\* The arrow array whose arrow number k joins the pair f[k].
arrowsOfPairs(f) ==
  [k \in 1..Len(f) |->
     mkArrow("e" \o ToString(k), f[k][1], f[k][2], "straight")]

InitCycles ==
  /\ InitEditor
  /\ InitFiles
  /\ InitNoCall
  /\ \E n \in 0..CyLen : \E f \in [1..n -> CyPairs] :
       cyArrows = arrowsOfPairs(f)
  /\ cyResult = <<>>

callDetectAllCycles ==
  /\ cyResult = <<>>
  /\ cyResult' = <<detectAllCycles(cyArrows)>>
  /\ UNCHANGED <<editorVars, cyArrows, fnVars, fileVars, isDragging>>

NextCycles == callDetectAllCycles

SpecCycles == InitCycles /\ [][NextCycles]_vars

\* The arrow specification: a return visit to a project of two tasks
\* whose arrows an earlier session drew (ids e1, e2, ... in the order of
\* drawing, no ordered pair twice), and then any sequence of connecting,
\* selecting and deleting.
arrowProject(f) ==
  [localId |-> 1,
   tasks |-> <<mkTask(0, 0, TRUE), mkTask(1, 0, FALSE)>>,
   arrows |-> arrowsOfPairs(f),
   taskIdCounter |-> 2]

\* The editor right after mounting on the saved project list <<p>>.
InitSession(p) ==
  /\ projects = <<p>>
  /\ lsProjects = <<projects>>
  /\ lastProjectId = p.localId
  /\ uuidCounter = 2
  /\ currentProjectIndex = 0
  /\ tasks = p.tasks
  /\ arrows = p.arrows
  /\ edgeClickTasks = tasks
  /\ arrowType = "straight"
  /\ selectedTaskId = NoTask
  /\ selectedArrowId = Null
  /\ taskIdCounter = p.taskIdCounter
  /\ history = <<>>
  /\ historyIndex = -1
  /\ pendingSwitch = <<>>
  /\ writes = 0

InitArrows ==
  /\ \E n \in 0..SavedArrows : \E f \in [1..n -> {0, 1} \X {0, 1}] :
       /\ \A i, j \in 1..n : f[i] = f[j] => i = j
       /\ InitSession(arrowProject(f))
  /\ InitFiles
  /\ InitNoCall
  /\ cyArrows = <<>>
  /\ cyResult = <<>>

NextArrows ==
  \/ \E s \in taskIds(tasks), t \in taskIds(tasks) : onConnect(s, t)
  \/ \E e \in arrowIds(arrows) : onEdgeClick(e)
  \/ \E t \in taskIds(tasks) : onTaskClick(t)
  \/ onPaneClick
  \/ deleteSelected

SpecArrows == InitArrows /\ [][NextArrows]_vars

\* The graph-function specification: one call of areAllParentsCompleted,
\* hasIncompleteParent or updateStyles on a task array (tasks with the ids
\* FnTaskIds, no id twice), an arrow array (ids e1, e2, ...; the ends are
\* task ids or FnMissingId, the id of no task) and, for the first two, a
\* task id, for updateStyles the two selections.
FnTaskIds == {1, 2}

FnMissingId == Cardinality(FnTaskIds) + 1

FnIds == FnTaskIds \cup {FnMissingId}

InitGraph ==
  /\ InitEditor
  /\ InitFiles
  /\ cyResult = <<>>
  /\ fnResult = <<>>
  /\ \E n \in 0..Cardinality(FnTaskIds) :
       \E ids \in [1..n -> FnTaskIds], flags \in [1..n -> BOOLEAN] :
         /\ \A i, j \in 1..n : ids[i] = ids[j] => i = j
         /\ fnTasks = [k \in 1..n |-> mkTask(ids[k], 0, flags[k])]
  /\ \E n \in 0..FnArrows : \E f \in [1..n -> FnIds \X FnIds] :
       cyArrows = arrowsOfPairs(f)
  /\ \/ /\ fnTaskId \in FnIds
        /\ fnSelectedTaskId = NoTask
        /\ fnSelectedArrowId = Null
     \/ /\ fnTaskId = NoTask
        /\ fnSelectedTaskId \in {NoTask, 1}
        /\ fnSelectedArrowId \in {Null, "e1"}

callAreAllParentsCompleted ==
  /\ fnResult = <<>> /\ fnTaskId # NoTask
  /\ fnResult' = <<[fn |-> "areAllParentsCompleted",
                    value |-> areAllParentsCompleted(fnTaskId, fnTasks,
                                                     cyArrows)]>>
  /\ UNCHANGED <<editorVars, cyVars, fnTasks, fnTaskId, fnSelectedTaskId,
                 fnSelectedArrowId, fileVars, isDragging>>

callHasIncompleteParent ==
  /\ fnResult = <<>> /\ fnTaskId # NoTask
  /\ fnResult' = <<[fn |-> "hasIncompleteParent",
                    value |-> hasIncompleteParent(fnTaskId, fnTasks,
                                                  cyArrows)]>>
  /\ UNCHANGED <<editorVars, cyVars, fnTasks, fnTaskId, fnSelectedTaskId,
                 fnSelectedArrowId, fileVars, isDragging>>

callUpdateStyles ==
  /\ fnResult = <<>> /\ fnTaskId = NoTask
  /\ fnResult' = <<[fn |-> "updateStyles",
                    value |-> updateStyles(fnTasks, cyArrows,
                                           fnSelectedTaskId,
                                           fnSelectedArrowId)]>>
  /\ UNCHANGED <<editorVars, cyVars, fnTasks, fnTaskId, fnSelectedTaskId,
                 fnSelectedArrowId, fileVars, isDragging>>

\* A second call of updateStyles, on the arrays the first call returned
\* and with the same selections.
callUpdateStylesOnOutput ==
  /\ fnResult # <<>> /\ fnResult[1].fn = "updateStyles"
  /\ fnResult' = <<[fn |-> "updateStyles twice",
                    first |-> fnResult[1].value,
                    value |-> updateStyles(fnResult[1].value.tasks,
                                           fnResult[1].value.arrows,
                                           fnSelectedTaskId,
                                           fnSelectedArrowId)]>>
  /\ UNCHANGED <<editorVars, cyVars, fnTasks, fnTaskId, fnSelectedTaskId,
                 fnSelectedArrowId, fileVars, isDragging>>

NextGraph ==
  \/ callAreAllParentsCompleted
  \/ callHasIncompleteParent
  \/ callUpdateStyles
  \/ callUpdateStylesOnOutput

SpecGraph == InitGraph /\ [][NextGraph]_vars

\* The file specification: an editing session, then an export, then the
\* import of the exported file or of another file, then the timer the
\* import may have started.
fileInputs ==
  {garbageFile, nullFile, emptyObjectFile}
    \cup {exportedFile[i] : i \in 1..Len(exportedFile)}

NextFiles ==
  \/ /\ exportedFile = <<>> /\ importedFile = <<>>
     /\ \/ addTask
        \/ \E s \in taskIds(tasks), t \in taskIds(tasks) : onConnect(s, t)
        \/ \E e \in arrowIds(arrows) : onEdgeClick(e)
        \/ \E t \in taskIds(tasks) : onTaskClick(t)
        \/ onPaneClick
        \/ deleteSelected
        \/ \E i \in 1..Len(tasks), l \in Labels, c \in BOOLEAN :
             editTask(i, l, c)
        \/ \E ty \in ArrowTypes : handleArrowTypeChange(ty)
        \/ undo
        \/ redo
  \/ importedFile = <<>> /\ exportData
  \/ \E file \in fileInputs, eager \in BOOLEAN :
       importedFile = <<>> /\ importData(file, eager)
  \/ projectSwitchTimer

SpecFiles == Init /\ [][NextFiles]_vars

\* The one-project specification: the session of Init with the handlers
\* that edit the active project, and no change of project.
NextProject ==
  \/ addTask
  \/ \E s \in taskIds(tasks), t \in taskIds(tasks) : onConnect(s, t)
  \/ \E e \in arrowIds(arrows) : onEdgeClick(e)
  \/ \E t \in taskIds(tasks) : onTaskClick(t)
  \/ onPaneClick
  \/ deleteSelected
  \/ \E i \in 1..Len(tasks), l \in Labels, c \in BOOLEAN :
       editTask(i, l, c)
  \/ \E ty \in ArrowTypes : handleArrowTypeChange(ty)
  \/ undo
  \/ redo

SpecProject == Init /\ [][NextProject]_vars

\* currentProjectIndex names a project of the list.
validIndex == effectiveIndex < Len(effectiveProjects)

\* The save-as specification: an editing session on one project up to and
\* including its first save as new.
NextSaveAs ==
  \/ validIndex /\ NextProject
  \/ \E eager \in BOOLEAN : validIndex /\ saveCurrentProjectAsNew(eager)

SpecSaveAs == Init /\ [][NextSaveAs]_vars

\* The blocked-cycle specification: a return visit to the two-task project
\* of the arrow specification, and then any sequence of task edits and
\* connects.
NextBlocked ==
  \/ \E i \in 1..Len(tasks), l \in Labels, c \in BOOLEAN :
       editTask(i, l, c)
  \/ \E s \in taskIds(tasks), t \in taskIds(tasks) : onConnect(s, t)

SpecBlocked == InitArrows /\ [][NextBlocked]_vars

\* The drag specification: a return visit to the two-task project of the
\* arrow specification, in which tasks are dragged and arrows and the
\* pane are clicked.  reactflow sends the change that ends a drag with
\* the position the task already has, and no click while the pointer is
\* down.
NextDrag ==
  \/ \E i \in 1..Len(tasks), position \in Positions :
       handleNodesChange(i, position, TRUE)
  \/ \E i \in 1..Len(tasks) : handleNodesChange(i, tasks[i].pos, FALSE)
  \/ \E e \in arrowIds(arrows) : ~isDragging /\ onEdgeClick(e)
  \/ ~isDragging /\ onPaneClick

SpecDrag == InitArrows /\ [][NextDrag]_vars

\* The project-management specification: a session that adds tasks and
\* creates, selects and deletes projects.
NextManage ==
  \/ addTask
  \/ \E i \in 1..Len(effectiveProjects) : handleProjectSwitch(i)
  \/ projectSwitchTimer
  \/ handleCreateNewProject
  \/ \E i \in 1..Len(effectiveProjects) : handleDeleteProject(i)

SpecManage == Init /\ [][NextManage]_vars

\* The dialog specification: the dialog rendered once for a project of at
\* most DlgTasks tasks (ids 0, 1, ... in order, any completed flags).
InitDialog ==
  /\ InitEditor
  /\ InitFiles
  /\ cyArrows = <<>>
  /\ cyResult = <<>>
  /\ fnTaskId = NoTask
  /\ fnSelectedTaskId = NoTask
  /\ fnSelectedArrowId = Null
  /\ fnResult = <<>>
  /\ \E n \in 0..DlgTasks : \E flags \in [1..n -> BOOLEAN] :
       fnTasks = [k \in 1..n |-> mkTask(k - 1, 0, flags[k])]

renderDeleteConfirmModal ==
  /\ fnResult = <<>>
  /\ fnResult' = <<[fn |-> "DeleteConfirmModal",
                    value |-> dialogList([tasks |-> fnTasks])]>>
  /\ UNCHANGED <<editorVars, cyVars, fnTasks, fnTaskId, fnSelectedTaskId,
                 fnSelectedArrowId, fileVars, isDragging>>

NextDialog == renderDeleteConfirmModal

SpecDialog == InitDialog /\ [][NextDialog]_vars

\* ------------------------------------------------------------- claims

\* The snapshot the history cursor points at (the cursor counts from 0).
cursorEntry == history[historyIndex + 1]

\* A step that records a snapshot: a write of 'projects' that is not a
\* project creation, i.e. a saveToLocalStorage call.
recordStep == writes' = writes + 1 /\ uuidCounter' = uuidCounter

\* Every arrow into the task comes from a task that exists and is completed.
everyParentDone(id, ts, as) ==
  \A k \in 1..Len(as) :
    as[k].target = id =>
      \E j \in 1..Len(ts) : ts[j].id = as[k].source /\ ts[j].completed

\* The completed flags of the tasks with this id.
flagsOf(ts, id) == {ts[j].completed : j \in {k \in 1..Len(ts) : ts[k].id = id}}

\* C1: detectAllCycles returns exactly the ids of the arrows that lie on a
\* directed cycle (for 1->2, 2->3, 3->1 all three ids).
C1_ReturnsEveryArrowOnACycle ==
  cyResult # <<>> => cyResult[1] = onCycleIds(cyArrows)

\* C2: for arrows with distinct non-empty ids, detectAllCycles returns the
\* empty set if and only if the arrows form no directed cycle.
C2_EmptyIffAcyclic ==
  cyResult # <<>> => (cyResult[1] = {} <=> ~hasDirectedCycle(cyArrows))

C2_Witness ==
  /\ cyResult # <<>>
  /\ Len(cyArrows) = 3
  /\ hasDirectedCycle(cyArrows)
  /\ cyResult[1] # {}

\* C3: the task-edit operation makes a not-completed task completed only
\* if every arrow into it comes from an existing completed task in the
\* snapshot it is applied to; otherwise the flag stays false whatever was
\* requested.
C3_UpgradeOnlyWithParentsDone ==
  [][\A i \in 1..Len(tasks), l \in Labels, c \in BOOLEAN :
       (editTask(i, l, c) /\ ~tasks[i].completed) =>
          /\ flagsOf(tasks', tasks[i].id) # {}
          /\ TRUE \in flagsOf(tasks', tasks[i].id) =>
               everyParentDone(tasks[i].id, tasks, arrows)
          /\ ~everyParentDone(tasks[i].id, tasks, arrows) =>
               flagsOf(tasks', tasks[i].id) = {FALSE}]_vars

\* An edit has just acted on a not-completed task with an incomplete
\* parent: the entry it recorded shows the task before the edit (label 0,
\* not completed, parent not done), the live snapshot shows the new label.
C3_Witness ==
  /\ idle /\ historyIndex >= 0 /\ historyIndex = Len(history) - 1
  /\ \E i \in 1..Len(tasks) :
       /\ Len(cursorEntry.tasks) = Len(tasks)
       /\ cursorEntry.tasks[i].id = tasks[i].id
       /\ ~cursorEntry.tasks[i].completed
       /\ ~everyParentDone(tasks[i].id, cursorEntry.tasks, cursorEntry.arrows)
       /\ cursorEntry.tasks[i].label = 0
       /\ tasks[i].label = 1
       /\ ~tasks[i].completed

\* C4: when the edited task is already completed the task-edit operation
\* stores exactly the requested flag: false un-completes it, true keeps it
\* completed even with an incomplete or missing parent.
C4_CompletedTaskTakesRequest ==
  [][\A i \in 1..Len(tasks), l \in Labels, c \in BOOLEAN :
       (editTask(i, l, c) /\ tasks[i].completed) =>
          flagsOf(tasks', tasks[i].id) = {c}]_vars

\* An edit has just acted on a completed task with an incomplete parent
\* and left it completed: the recorded entry shows it completed with label
\* 0 and the parent not done, the live snapshot shows the new label and
\* the flag still set.
C4_Witness ==
  /\ idle /\ historyIndex >= 0 /\ historyIndex = Len(history) - 1
  /\ \E i \in 1..Len(tasks) :
       /\ Len(cursorEntry.tasks) = Len(tasks)
       /\ cursorEntry.tasks[i].id = tasks[i].id
       /\ cursorEntry.tasks[i].completed
       /\ ~everyParentDone(tasks[i].id, cursorEntry.tasks, cursorEntry.arrows)
       /\ cursorEntry.tasks[i].label = 0
       /\ tasks[i].label = 1
       /\ tasks[i].completed

\* C5: recording with the cursor at index i keeps the entries 0..i, appends
\* one entry and moves the cursor to the new last index, so that redo has
\* nothing to redo (after record, record, undo, record the history has two
\* entries with the cursor on the second).
C5_RecordTruncatesThenAppends ==
  [][recordStep =>
       /\ Len(history') = historyIndex + 2
       /\ SubSeq(history', 1, historyIndex + 1)
            = SubSeq(history, 1, historyIndex + 1)
       /\ historyIndex' = Len(history') - 1
       /\ ~(historyIndex' < Len(history') - 1)]_vars

\* Three snapshots were recorded and two entries remain: the third was
\* recorded after an undo and replaced the second.
C5_Witness ==
  /\ idle /\ uuidCounter = 2 /\ writes = 3
  /\ Len(history) = 2 /\ historyIndex = 1

\* C6: once an edit, undo or redo has been applied, the entry at the
\* cursor holds the live tasks and arrows.
C6_CursorEntryIsLiveSnapshot ==
  [][((recordStep \/ undo \/ redo) /\ pendingSwitch' = <<>>
      /\ historyIndex' >= 0)
       => /\ history'[historyIndex' + 1].tasks = tasks'
          /\ history'[historyIndex' + 1].arrows = arrows']_vars

\* C7: whenever the active project changes, the undo/redo history is
\* cleared.
C7_HistoryClearedOnProjectChange ==
  [][(Len(projects) > 0 /\ Len(projects') > 0
      /\ projects'[currentProjectIndex' + 1].localId
           # projects[currentProjectIndex + 1].localId)
       => (history' = <<>> /\ historyIndex' = -1)]_vars

\* C8: after each graph mutation has been applied, the active project's
\* tasks, arrows and taskIdCounter in the project list and in localStorage
\* equal the live ones.
C8_PersistedEqualsLiveAfterMutation ==
  [][(recordStep /\ pendingSwitch' = <<>>) =>
       /\ projects'[currentProjectIndex' + 1].tasks = tasks'
       /\ projects'[currentProjectIndex' + 1].arrows = arrows'
       /\ projects'[currentProjectIndex' + 1].taskIdCounter = taskIdCounter'
       /\ lsProjects' = <<projects'>>]_vars

\* C9: undo with the cursor <= 0 and redo with the cursor at the last index
\* change nothing; otherwise they move the cursor by one and load the entry
\* at the new cursor; and always -1 <= cursor <= length(history) - 1.
C9_UndoRedoWithinBounds ==
  /\ [](historyIndex >= -1 /\ historyIndex <= Len(history) - 1)
  /\ [][/\ undo =>
             IF historyIndex <= 0
             THEN UNCHANGED <<historyIndex, history, tasks, arrows>>
             ELSE /\ historyIndex' = historyIndex - 1
                  /\ tasks' = history[historyIndex' + 1].tasks
                  /\ arrows' = history[historyIndex' + 1].arrows
        /\ redo =>
             IF historyIndex >= Len(history) - 1
             THEN UNCHANGED <<historyIndex, history, tasks, arrows>>
             ELSE /\ historyIndex' = historyIndex + 1
                  /\ tasks' = history[historyIndex' + 1].tasks
                  /\ arrows' = history[historyIndex' + 1].arrows]_vars

\* The cursor stands below the last entry: an undo has moved it.
C9_Witness ==
  idle /\ historyIndex >= 0 /\ historyIndex < Len(history) - 1

\* C10: undo and redo leave the history entries as they are.
C10_UndoRedoKeepHistory ==
  [][(undo \/ redo) => history' = history]_vars

\* Two undos have moved the cursor from the third entry to the first and
\* all three entries are still there.
C10_Witness ==
  idle /\ Len(history) = 3 /\ historyIndex = 0

\* No two arrows of the array have the same ordered (source, target) pair.
noDuplicatePair(as) ==
  \A i, j \in 1..Len(as) :
    (as[i].source = as[j].source /\ as[i].target = as[j].target) => i = j

\* C11: after any sequence of connect and delete operations from a
\* snapshot with distinct arrow ids, the arrow ids of the live snapshot are
\* pairwise distinct.
C11_ArrowIdsDistinct ==
  \A i, j \in 1..Len(arrows) : arrows[i].id = arrows[j].id => i = j

\* C12: onConnect for an ordered pair an arrow already has changes nothing
\* (arrows, tasks, history, the persisted projects), and so no sequence of
\* connect and delete operations from a snapshot without a duplicate pair
\* yields two arrows with the same ordered pair.
C12_DuplicateConnectIsNoOp ==
  /\ [](noDuplicatePair(arrows))
  /\ [][\A s \in taskIds(tasks), t \in taskIds(tasks) :
         (onConnect(s, t)
          /\ \E i \in 1..Len(arrows) :
               arrows[i].source = s /\ arrows[i].target = t)
           => UNCHANGED <<arrows, tasks, history, historyIndex, projects,
                          lsProjects, lastProjectId>>]_vars

\* Connects and deletes have been applied and every ordered pair of the
\* two tasks now has its arrow, exactly one: each further connect is a
\* duplicate.
C12_Witness ==
  /\ idle /\ writes >= 2
  /\ taskIds(tasks) = {0, 1}
  /\ Len(arrows) = 4
  /\ \A s \in {0, 1}, t \in {0, 1} :
       \E i \in 1..Len(arrows) :
         arrows[i].source = s /\ arrows[i].target = t

\* The call of the graph-function specification has returned from fn.
returned(fn) == fnResult # <<>> /\ fnResult[1].fn = fn

\* The task array has a task with this id.
present(ts, id) == \E j \in 1..Len(ts) : ts[j].id = id

\* The task array has a completed task with this id.
done(ts, id) == \E j \in 1..Len(ts) : ts[j].id = id /\ ts[j].completed

\* Some arrow into the task comes from a task that is missing or not
\* completed.
someParentNotDone(id, ts, as) ==
  \E k \in 1..Len(as) : as[k].target = id /\ ~done(ts, as[k].source)

\* C13: areAllParentsCompleted is true iff no arrow has the task as its
\* target or every such arrow's source is a task of the array that is
\* completed; a missing source makes it false, no incoming arrow true.
C13_AllParentsCompletedIff ==
  returned("areAllParentsCompleted") =>
    LET incoming == {k \in 1..Len(cyArrows) : cyArrows[k].target = fnTaskId}
    IN /\ fnResult[1].value
            <=> (incoming = {}
                 \/ \A k \in incoming :
                      present(fnTasks, cyArrows[k].source)
                      /\ done(fnTasks, cyArrows[k].source))
       /\ (\E k \in incoming : ~present(fnTasks, cyArrows[k].source))
            => ~fnResult[1].value
       /\ incoming = {} => fnResult[1].value

\* The function was called for a task with a parent and returned true:
\* every parent is a completed task of the array.
C13_Witness ==
  /\ returned("areAllParentsCompleted")
  /\ fnResult[1].value
  /\ \E k \in 1..Len(cyArrows) :
       cyArrows[k].target = fnTaskId /\ done(fnTasks, cyArrows[k].source)

\* C14: hasIncompleteParent is true iff the task exists, is completed and
\* some incoming arrow's source is missing or not completed; for a task
\* of the array it equals completed and not areAllParentsCompleted.
C14_HasIncompleteParentIff ==
  returned("hasIncompleteParent") =>
    /\ fnResult[1].value
         <=> (/\ present(fnTasks, fnTaskId)
              /\ done(fnTasks, fnTaskId)
              /\ someParentNotDone(fnTaskId, fnTasks, cyArrows))
    /\ present(fnTasks, fnTaskId) =>
         (fnResult[1].value
            <=> (done(fnTasks, fnTaskId)
                 /\ ~areAllParentsCompleted(fnTaskId, fnTasks, cyArrows)))

\* The function was called for a completed task with an arrow from a
\* missing task and returned true.
C14_Witness ==
  /\ returned("hasIncompleteParent")
  /\ fnResult[1].value
  /\ \E k \in 1..Len(cyArrows) :
       cyArrows[k].target = fnTaskId
       /\ ~present(fnTasks, cyArrows[k].source)

\* The border a task gets by the priority selected, blocked, ready,
\* default.
borderByPriority(t, ts, as, sel) ==
  IF t.id = sel THEN "2px solid blue"
  ELSE IF t.completed /\ someParentNotDone(t.id, ts, as)
    THEN "2px solid red"
  ELSE IF ~t.completed /\ ~someParentNotDone(t.id, ts, as)
    THEN "2px solid green"
  ELSE "1px solid black"

\* C15: updateStyles gives every task the one border of the first of
\* selected (blue), blocked (red), ready (green), default (black) that
\* applies, and the completed background iff the task is completed.
C15_BorderByStrictPriority ==
  returned("updateStyles") =>
    LET out == fnResult[1].value.tasks
    IN /\ Len(out) = Len(fnTasks)
       /\ \A i \in 1..Len(fnTasks) :
            /\ out[i].id = fnTasks[i].id
            /\ out[i].style.border
                 = borderByPriority(fnTasks[i], fnTasks, cyArrows,
                                    fnSelectedTaskId)
            /\ (out[i].style.background = "#d4d4d4")
                 <=> fnTasks[i].completed

\* updateStyles was called with the selected task blocked (completed, a
\* parent not done) and made its border blue, its background completed.
C15_Witness ==
  /\ returned("updateStyles")
  /\ \E i \in 1..Len(fnTasks) :
       /\ fnTasks[i].id = fnSelectedTaskId
       /\ fnTasks[i].completed
       /\ someParentNotDone(fnTasks[i].id, fnTasks, cyArrows)
       /\ fnResult[1].value.tasks[i].style.border = "2px solid blue"
       /\ fnResult[1].value.tasks[i].style.background = "#d4d4d4"

\* C16: updateStyles makes an arrow's stroke and marker red iff its id is
\* in detectAllCycles(arrows), black otherwise; the selection decides the
\* stroke width only.
C16_CyclicIffDetected ==
  returned("updateStyles") =>
    LET out == fnResult[1].value.arrows
        colour(k) == IF cyArrows[k].id \in detectAllCycles(cyArrows)
                     THEN "red" ELSE "#000"
    IN /\ Len(out) = Len(cyArrows)
       /\ \A k \in 1..Len(cyArrows) :
            /\ out[k].id = cyArrows[k].id
            /\ out[k].style.stroke = colour(k)
            /\ out[k].markerEnd.color = colour(k)
            /\ out[k].style.strokeWidth
                 = IF cyArrows[k].id = fnSelectedArrowId THEN 3 ELSE 1

\* updateStyles was called with the selected arrow on a cycle and made it
\* red and wide.
C16_Witness ==
  /\ returned("updateStyles")
  /\ \E k \in 1..Len(cyArrows) :
       /\ cyArrows[k].id = fnSelectedArrowId
       /\ cyArrows[k].id \in detectAllCycles(cyArrows)
       /\ fnResult[1].value.arrows[k].style.stroke = "red"
       /\ fnResult[1].value.arrows[k].style.strokeWidth = 3

\* C17: a self-loop arrow (source = target) is in the result of
\* detectAllCycles for every arrow array that contains it, other arrows of
\* the same pair included.
C17_SelfLoopAlwaysFlagged ==
  cyResult # <<>> =>
    \A k \in 1..Len(cyArrows) :
      cyArrows[k].source = cyArrows[k].target
        => cyArrows[k].id \in cyResult[1]

\* C18: importing a file that is not parseable JSON leaves the project
\* list, the active index, the live tasks and arrows, taskIdCounter and
\* the history with its cursor unchanged, and only shows the alert.
C18_MalformedImportChangesNothing ==
  [][\A eager \in BOOLEAN :
       importData(garbageFile, eager) =>
         /\ UNCHANGED <<projects, currentProjectIndex, tasks, arrows,
                        taskIdCounter, history, historyIndex, lsProjects,
                        pendingSwitch>>
         /\ alerted' /\ ~crashed']_vars

\* An edited session (a recorded history) has refused the malformed file.
C18_Witness ==
  /\ importedFile = <<garbageFile>>
  /\ alerted /\ ~crashed
  /\ historyIndex >= 1
  /\ Len(tasks) >= 2

\* C19: once the import of the file just exported has been applied (the
\* timer it may start included), the live tasks and arrows equal the
\* exported ones: ids, labels, flags and positions, and ids, sources,
\* targets and routing types.
C19_ExportImportRoundTrip ==
  (/\ exportedFile # <<>>
   /\ importedFile = exportedFile
   /\ idle)
    => /\ ~crashed
       /\ tasks = exportedFile[1].tasks[1]
       /\ arrows = exportedFile[1].arrows[1]

\* C20: within one project, over add task, delete, edit, undo and redo,
\* taskIdCounter never decreases, add task uses its value as the id of the
\* new task and increases it by one, and the task ids of the live
\* snapshot are pairwise distinct.
C20_CounterMonotoneIdsDistinct ==
  /\ [](\A i, j \in 1..Len(tasks) : tasks[i].id = tasks[j].id => i = j)
  /\ [][taskIdCounter' >= taskIdCounter]_vars
  /\ [][addTask =>
         /\ taskIdCounter' = taskIdCounter + 1
         /\ Len(tasks') = Len(tasks) + 1
         /\ tasks'[Len(tasks')].id = taskIdCounter
         /\ \A i \in 1..Len(tasks) : tasks'[i].id = tasks[i].id]_vars

\* Two tasks were added, the second add was undone and a third task
\* added: it has the id 3, not the id 2 of the undone task.
C20_Witness ==
  /\ idle /\ writes = 3
  /\ taskIdCounter = 4
  /\ Len(tasks) = 2
  /\ tasks[2].id = 3
  /\ Len(history) = 2 /\ historyIndex = 1

\* Every arrow of the array joins two tasks of the task array.
noDanglingArrow(ts, as) ==
  \A k \in 1..Len(as) :
    as[k].source \in taskIds(ts) /\ as[k].target \in taskIds(ts)

\* C21: from a snapshot without dangling arrows, after any sequence of add
\* task, connect, delete selected, edit task, undo and redo, every arrow of
\* the live snapshot joins two tasks of the live snapshot; deleting the
\* selected task removes every arrow that leaves or enters it.
C21_NoDanglingArrows ==
  /\ [](noDanglingArrow(tasks, arrows))
  /\ [][(deleteSelected /\ selectedTaskId # NoTask) =>
         /\ selectedTaskId \notin taskIds(tasks')
         /\ \A k \in 1..Len(arrows') :
              /\ arrows'[k].source # selectedTaskId
              /\ arrows'[k].target # selectedTaskId]_vars

\* A task with an arrow has just been deleted: the entry the deletion
\* recorded still shows an arrow at a task the live snapshot no longer
\* has, the live snapshot has no such arrow.
C21_Witness ==
  /\ idle /\ historyIndex >= 0 /\ historyIndex = Len(history) - 1
  /\ noDanglingArrow(cursorEntry.tasks, cursorEntry.arrows)
  /\ ~noDanglingArrow(tasks, cursorEntry.arrows)
  /\ Len(arrows) < Len(cursorEntry.arrows)
  /\ Len(tasks) < Len(cursorEntry.tasks)

\* C22: in every reachable state at most one of selectedTaskId and
\* selectedArrowId is set: a click on a task selects it and clears the
\* arrow selection, a click on an arrow selects it and clears the task
\* selection, a click on the pane clears both, and deleting the selection
\* clears it.
C22_SelectionMutuallyExclusive ==
  /\ [](selectedTaskId = NoTask \/ selectedArrowId = Null)
  /\ [][/\ \A t \in taskIds(tasks) :
             onTaskClick(t) =>
               (selectedTaskId' = t /\ selectedArrowId' = Null)
        /\ \A e \in arrowIds(arrows) :
             onEdgeClick(e) =>
               (selectedArrowId' = e /\ selectedTaskId' = NoTask)
        /\ onPaneClick =>
             (selectedTaskId' = NoTask /\ selectedArrowId' = Null)
        /\ (deleteSelected
            /\ (selectedTaskId # NoTask \/ selectedArrowId # Null)) =>
             (selectedTaskId' = NoTask /\ selectedArrowId' = Null)]_vars

\* An arrow was drawn and the task it leaves was then clicked: the task
\* is selected, no arrow is.
C22_Witness ==
  /\ idle
  /\ Len(arrows) > 0
  /\ selectedTaskId \in taskIds(tasks)
  /\ selectedArrowId = Null
  /\ \E k \in 1..Len(arrows) : arrows[k].source = selectedTaskId

\* C23: updateStyles applied to its own output with the same selections
\* gives every task and arrow the style and markerEnd the first call gave
\* it, and both calls leave ids, labels, completed flags, positions,
\* sources, targets and routing types as they were in the input.
C23_UpdateStylesIdempotent ==
  returned("updateStyles twice") =>
    LET first == fnResult[1].first
        second == fnResult[1].value
    IN /\ Len(second.tasks) = Len(fnTasks)
       /\ Len(second.arrows) = Len(cyArrows)
       /\ \A i \in 1..Len(fnTasks) :
            /\ second.tasks[i].style = first.tasks[i].style
            /\ storedTasks(second.tasks)[i] = fnTasks[i]
            /\ storedTasks(first.tasks)[i] = fnTasks[i]
       /\ \A k \in 1..Len(cyArrows) :
            /\ second.arrows[k].style = first.arrows[k].style
            /\ second.arrows[k].markerEnd = first.arrows[k].markerEnd
            /\ storedArrows(second.arrows)[k] = cyArrows[k]
            /\ storedArrows(first.arrows)[k] = cyArrows[k]

\* updateStyles was applied twice to a graph with a blocked task, an
\* arrow on a cycle and a selected arrow.
C23_Witness ==
  /\ returned("updateStyles twice")
  /\ fnSelectedArrowId # Null
  /\ \E i \in 1..Len(fnTasks) :
       fnResult[1].value.tasks[i].style.border = "2px solid red"
  /\ \E k \in 1..Len(cyArrows) :
       fnResult[1].value.arrows[k].style.stroke = "red"

\* C24: when several arrows have the same ordered (source, target) pair
\* and detectAllCycles flags that pair as a back-edge, its result holds
\* the id of every arrow of the pair, not only of the first.
C24_EveryArrowOfBackEdgePair ==
  cyResult # <<>> =>
    \A j, k \in 1..Len(cyArrows) :
      (/\ cyArrows[j].source = cyArrows[k].source
       /\ cyArrows[j].target = cyArrows[k].target
       /\ cyArrows[j].id \in cyResult[1])
        => cyArrows[k].id \in cyResult[1]

\* C25: a blocked completion upgrade (the task is not completed, some
\* parent is missing or not completed, completed = true is requested) is
\* not an error: the edit is applied with the new label and completed
\* false, one history entry is recorded, and the step is the very step an
\* edit requesting completed = false takes.
C25_BlockedUpgradeIsPlainEdit ==
  [][\A i \in 1..Len(tasks), l \in Labels :
       (/\ editTask(i, l, TRUE)
        /\ ~tasks[i].completed
        /\ ~everyParentDone(tasks[i].id, tasks, arrows))
         => /\ editTask(i, l, FALSE)
            /\ Len(tasks') = Len(tasks)
            /\ tasks'[i] = [tasks[i] EXCEPT !.label = l,
                                            !.completed = FALSE]
            /\ recordStep
            /\ Len(history') = historyIndex + 2
            /\ historyIndex' = historyIndex + 1
            /\ UNCHANGED <<alerted, crashed>>]_vars

\* The third edit of the session relabelled a task that is blocked by an
\* arrow from a task that is not completed: the entry it recorded shows
\* the old label, the live task has the new label and is not completed.
C25_Witness ==
  /\ idle /\ writes = 3 /\ Len(history) = 3 /\ historyIndex = 2
  /\ cursorEntry.arrows = arrows
  /\ \E i \in 1..Len(tasks) :
       /\ Len(cursorEntry.tasks) = Len(tasks)
       /\ cursorEntry.tasks[i] = [tasks[i] EXCEPT !.label = 0]
       /\ tasks[i].label = 1
       /\ ~tasks[i].completed
       /\ someParentNotDone(tasks[i].id, tasks, arrows)

\* C26: once saveCurrentProjectAsNew has been applied (its
\* saveToLocalStorage call included), the project list has one project
\* more, currentProjectIndex is a valid index of it, and the project
\* there has a fresh localId and the live tasks, arrows and taskIdCounter.
C26_SaveAsNewAddsActiveCopy ==
  [][\A eager \in BOOLEAN :
       saveCurrentProjectAsNew(eager) =>
         /\ ~crashed'
         /\ Len(projects') = Len(projects) + 1
         /\ currentProjectIndex' \in 0..(Len(projects') - 1)
         /\ LET copy == projects'[currentProjectIndex' + 1]
            IN /\ \A i \in 1..Len(projects) :
                    projects[i].localId # copy.localId
               /\ copy.tasks = tasks'
               /\ copy.arrows = arrows'
               /\ copy.taskIdCounter = taskIdCounter']_vars

\* C27: for every project the delete-confirmation dialog lists at most
\* MAX_DISPLAY_TASKS tasks, the incomplete ones first, and the remaining
\* count it reports is the number of project tasks not listed and never
\* negative, also for a project with more than MAX_DISPLAY_TASKS
\* incomplete tasks and some completed ones.
C27_DialogListsAtMostMax ==
  returned("DeleteConfirmModal") =>
    LET shown == fnResult[1].value.displayedTasks
        rest == fnResult[1].value.remainingTasks
    IN /\ Len(shown) <= MAX_DISPLAY_TASKS
       /\ \A i, j \in 1..Len(shown) :
            (shown[i].completed /\ ~shown[j].completed) => j < i
       /\ rest = Cardinality(taskIds(fnTasks) \ taskIds(shown))
       /\ rest >= 0

\* C28: for every graph edit in every reachable state, the first edit
\* after load included, an undo right after the edit leaves the live
\* tasks and arrows as they were just before the edit.
C28_UndoRevertsLastEdit ==
  [][recordStep =>
       afterUndo(history', historyIndex', tasks', arrows')
         = [tasks |-> tasks, arrows |-> arrows]]_vars

\* C29: whenever undo is enabled (cursor > 0), a redo right after the
\* undo leaves the live tasks and arrows as they were before the undo.
C29_UndoThenRedoRestores ==
  [][(undo /\ historyIndex > 0) =>
       afterRedo(history', historyIndex', tasks', arrows')
         = [tasks |-> tasks, arrows |-> arrows]]_vars

\* C30: deleting a project other than the active one leaves the active
\* project the same project by localId and the live tasks, arrows and
\* taskIdCounter unchanged, wherever the deleted project stands in the
\* list.
C30_DeleteOtherKeepsActive ==
  [][\A i \in 1..Len(effectiveProjects) :
       (/\ handleDeleteProject(i)
        /\ effectiveProjects[i].localId # activeProject.localId)
         => /\ projects'[currentProjectIndex' + 1].localId
                 = activeProject.localId
            /\ UNCHANGED <<tasks, arrows, taskIdCounter>>]_vars

\* The arrows that join two tasks of the array that are both not completed.
openArrows(ts, as) ==
  SelectSeq(as, LAMBDA a : /\ present(ts, a.source) /\ ~done(ts, a.source)
                           /\ present(ts, a.target) /\ ~done(ts, a.target))

\* The tasks on a directed cycle of arrows (a self-loop included) all of
\* whose tasks are not completed.
onOpenCycle(ts, as) ==
  {id \in taskIds(ts) : id \in reachable(openArrows(ts, as), id)}

\* C31: connect accepts an arrow that closes a cycle, and while the arrows
\* of a cycle of not-completed tasks remain, no task edit makes a task of
\* the cycle completed: after every edit the tasks of the cycle are still
\* on such a cycle.
C31_OpenCycleBlocksCompletion ==
  /\ [][(\E i \in 1..Len(tasks), l \in Labels, c \in BOOLEAN :
            editTask(i, l, c))
         => /\ \A id \in onOpenCycle(tasks, arrows) : ~done(tasks', id)
            /\ onOpenCycle(tasks, arrows) \subseteq onOpenCycle(tasks', arrows')
        ]_vars
  /\ [][\A s \in taskIds(tasks), t \in taskIds(tasks) :
         (/\ onConnect(s, t)
          /\ ~\E k \in 1..Len(arrows) :
                arrows[k].source = s /\ arrows[k].target = t)
           => /\ Len(arrows') = Len(arrows) + 1
              /\ arrows'[Len(arrows')].source = s
              /\ arrows'[Len(arrows')].target = t]_vars

\* Both tasks are on a cycle 0 -> 1 -> 0 of not-completed tasks, and the
\* last edit relabelled one of them while it was on that cycle: the entry
\* the edit recorded shows the cycle and the old label.
C31_Witness ==
  /\ idle /\ historyIndex >= 0 /\ historyIndex = Len(history) - 1
  /\ onOpenCycle(tasks, arrows) = {0, 1}
  /\ \E k \in 1..Len(arrows) : arrows[k].source # arrows[k].target
  /\ onOpenCycle(cursorEntry.tasks, cursorEntry.arrows) = {0, 1}
  /\ \E i \in 1..Len(tasks) :
       /\ Len(cursorEntry.tasks) = Len(tasks)
       /\ cursorEntry.tasks[i].label = 0
       /\ tasks[i].label = 1

\* The arrows as (id, source, target) triples.
arrowSet(as) ==
  {<<as[k].id, as[k].source, as[k].target>> : k \in 1..Len(as)}

\* C32: selecting the project that is already active leaves the live task
\* ids, labels and completed flags and the arrow set as they were before
\* the selection (the snapshot handleProjectSwitch recorded at the
\* cursor): edits made since the last save are not reverted.
C32_ReselectingActiveKeepsLive ==
  [][(/\ projectSwitchTimer
      /\ pendingSwitch[1].project.localId = activeProject.localId)
       => /\ Len(tasks') = Len(cursorEntry.tasks)
          /\ \A i \in 1..Len(tasks') :
               /\ tasks'[i].id = cursorEntry.tasks[i].id
               /\ tasks'[i].label = cursorEntry.tasks[i].label
               /\ tasks'[i].completed = cursorEntry.tasks[i].completed
          /\ arrowSet(arrows') = arrowSet(cursorEntry.arrows)]_vars

\* C33: clicking an arrow changes only the selection and the derived
\* styles: the tasks after the click are the tasks of the live snapshot
\* just before it, with every id, label, completed flag and position,
\* also when a task was dragged since the arrows last changed.
C33_EdgeClickKeepsTasks ==
  [][\A e \in arrowIds(arrows) : onEdgeClick(e) => tasks' = tasks]_vars

====
